---- MODULE Spec2Model ----
(***************************************************************************)
(* Asset-state reconstruction of the Digital Asset Registry dApp.          *)
(*                                                                         *)
(* The ledger (the deployed registry contract) holds assets, permission    *)
(* events and usage entries.  utils/contract.ts wraps its reads and        *)
(* writes, utils/assetLoader.ts rebuilds Asset views from it, and App.tsx  *)
(* holds the view state.  Every await of the loader is one step of the     *)
(* model; the outcome of each ledger read is a nondeterministic choice.    *)
(***************************************************************************)
EXTENDS Integers, Sequences, FiniteSets

\* ------------------------------------------------------------------------
\* Bounds of the model
\* ------------------------------------------------------------------------
MaxAssets == 2
MaxEvents == 1
MaxUsage == 1
MaxFoldEvents == 3
MaxAggUsage == 3

\* ------------------------------------------------------------------------
\* Addresses and strings
\* ------------------------------------------------------------------------
\* Accounts as the ledger reports them (checksummed, mixed case).
Accounts == {"0xAa", "0xBb"}

\* Addresses in any letter case, as an event or an owner field may carry them.
AnyCase == {"0xAa", "0xaa", "0xBb", "0xbb", "0xCc"}

ZeroAddress == "0x0000000000000000000000000000000000000000"

ToLowerCaseM(s) == s

\* String.prototype.toLowerCase on the addresses of the model.
ToLowerCase(s) ==
  CASE s = "0xAa" -> "0xaa"
    [] s = "0xBb" -> "0xbb"
    [] s = "0xCc" -> "0xcc"
    [] OTHER -> s

Digit == <<"0", "1", "2", "3", "4", "5", "6", "7", "8", "9">>

\* Number.prototype.toString: the decimal digits of n.
RECURSIVE toString(_)
toString(n) ==
  IF n < 10 THEN <<Digit[n + 1]>>
  ELSE toString(n \div 10) \o <<Digit[(n % 10) + 1]>>

\* new Date(Number(ts) * 1000).toLocaleString()
ToLocaleString(ts) == <<"locale", ts * 1000>>

\* null as loadAsset returns it, as the loadError state holds it, and as
\* localStorage.getItem returns it for a missing key.
Null == [null |-> TRUE]
NullError == "null"
NullItem == <<>>

\* ------------------------------------------------------------------------
\* State
\* ------------------------------------------------------------------------
VARIABLES
  ledger,          \* assets of the ledger, ids 1..Len: [author, owner]
  permEvents,      \* per asset: PermissionGranted/Revoked events, emission order
  usageEntries,    \* per asset: usage entries, index order
  clock,           \* block timestamp of the next usage entry
  contractAddress, \* config.contractAddress, '' when VITE_CONTRACT_ADDRESS is unset
  lpc,             \* position of the running loader call
  lfn,             \* which loader function runs
  assetId,         \* loadAllAssets: let assetId / loadAsset: its argument
  assetData,       \* result of the last viewAsset
  usageLogs,       \* result of the last loadUsageLogs
  loaded,          \* loadAllAssets: const assets
  returned,        \* value the finished loader call returned
  probeEnd,        \* outcome of the read that ended the call
  reads,           \* outcomes of the usage and permission reads of the asset being assembled
  caller,          \* the exported filter function that awaits the running loadAllAssets
  appPc,           \* position of App.loadAssetsFromBlockchain
  myAssets,        \* loadAssetsFromBlockchain: const myAssets
  walletAddress,   \* App state walletAddress
  assets,          \* App state assets
  allAssets,       \* App state allAssets
  isLoadingAssets, \* App state isLoadingAssets
  loadError,       \* App state loadError
  storage,         \* localStorage entry assets_<walletAddress>
  netSeen,         \* a viewAsset or connection test of the current call failed with a connectivity error
  lastLoad,        \* how the last finished loadAssetsFromBlockchain ended
  selectedAsset,   \* App state selectedAsset, the asset AssetDetail shows
  handler,         \* frame of the running App handler (transfer, grant, revoke, log usage)
  detail,          \* AssetDetail: isDownloading, downloadError and handleDownload's position
  second,          \* frame of a second, overlapping loadAssetsFromBlockchain
  parked           \* localStorage entries assets_<w> of the wallets that are not connected

ledgerVars == <<ledger, permEvents, usageEntries, clock, contractAddress>>
loaderVars == <<lpc, lfn, assetId, assetData, usageLogs, loaded, returned, probeEnd, reads, caller>>
appVars == <<appPc, myAssets, walletAddress, assets, allAssets, isLoadingAssets, loadError, storage, netSeen, lastLoad>>
viewVars == <<selectedAsset, handler, detail, second, parked>>
vars == <<ledgerVars, loaderVars, appVars, viewVars>>

\* ------------------------------------------------------------------------
\* Ledger reads (utils/contract.ts)
\* ------------------------------------------------------------------------
\* Outcomes of one ledger read.  "net" is a connectivity failure; "decode"
\* is the BAD_DATA / 'could not decode result data' failure of a read past
\* the end of the asset table; "zero" is an all-zero struct for such an id.
Exists(id) == id \in 1..Len(ledger)

\* getContract / getReadOnlyContract: if (!config.contractAddress) throw
Configured == contractAddress # ""

\* "config" is the 'Contract address not configured' error that
\* getReadOnlyContract throws inside viewAsset, which rethrows it.
ViewAssetOutcomes(id) ==
  IF ~Configured THEN {"config"}
  ELSE IF Exists(id) THEN {"ok", "net"} ELSE {"zero", "decode", "net"}

\* viewAsset: the AssetData of a successful read.
viewAsset(id) ==
  IF Exists(id)
  THEN [id |-> id, author |-> ledger[id].author, owner |-> ledger[id].owner]
  ELSE [id |-> 0, author |-> ZeroAddress, owner |-> ZeroAddress]

\* Error classes of a failed viewAsset, as loadAllAssets' catch sorts them.
IsEndOfDataError(o) == o = "decode"

EntriesOf(id) == IF Exists(id) THEN usageEntries[id] ELSE <<>>
EventsOf(id) == IF Exists(id) THEN permEvents[id] ELSE <<>>

\* Outcomes of the reads of one getAllUsageEntries call: all succeed, the
\* usageCount read fails, or viewUsageEntry(id, at) is the first to fail.
UsageOutcomes(id) ==
  {[kind |-> "ok", at |-> 0], [kind |-> "count", at |-> 0]}
    \cup {[kind |-> "entry", at |-> j] : j \in 0..(Len(EntriesOf(id)) - 1)}

getUsageCountM(id, o) == Len(EntriesOf(id))

\* getUsageCount: the count, or 0 when the read fails.
getUsageCount(id, o) == IF o.kind = "count" THEN 0 ELSE Len(EntriesOf(id))

RECURSIVE ReadEntriesM(_, _, _, _, _)
ReadEntriesM(id, o, i, count, entries) ==
  IF i >= count THEN [threw |-> FALSE, entries |-> entries]
  ELSE IF o.kind = "entry" /\ o.at = i THEN [threw |-> TRUE, entries |-> entries]
  ELSE ReadEntriesM(id, o, i + 1, count, <<EntriesOf(id)[i + 1]>> \o entries)

\* The for loop of getAllUsageEntries from index i on; a failed
\* viewUsageEntry throws out of the loop.
RECURSIVE ReadEntries(_, _, _, _, _)
ReadEntries(id, o, i, count, entries) ==
  IF i >= count THEN [threw |-> FALSE, entries |-> entries]
  ELSE IF o.kind = "entry" /\ o.at = i THEN [threw |-> TRUE, entries |-> entries]
  ELSE ReadEntries(id, o, i + 1, count, Append(entries, EntriesOf(id)[i + 1]))

\* getAllUsageEntries: the entries in index order, or [] from the catch.
getAllUsageEntries(id, o) ==
  LET r == ReadEntries(id, o, 0, getUsageCount(id, o), <<>>)
  IN IF r.threw THEN <<>> ELSE r.entries

\* loadUsageLogs: entries.map((entry, index) => UsageLog)
loadUsageLogs(id, o) ==
  LET entries == getAllUsageEntries(id, o)
  IN [i \in 1..Len(entries) |->
        [id |-> toString(id) \o <<"-">> \o toString(i - 1),
         user |-> entries[i].actor,
         timestamp |-> ToLocaleString(entries[i].timestamp),
         description |-> entries[i].description]]

\* ------------------------------------------------------------------------
\* Permission reconciliation (getAssetPermissions)
\* ------------------------------------------------------------------------
Has(set, x) == \E i \in 1..Len(set) : set[i] = x

SetAddM(set, x) == Append(set, x)

\* Set.prototype.add / delete on a Set kept in insertion order.
SetAdd(set, x) == IF Has(set, x) THEN set ELSE Append(set, x)
SetDelete(set, x) == SelectSeq(set, LAMBDA y : y # x)

\* contract.queryFilter(filter): the events of one kind, in emission order.
QueryFilter(events, kind) == SelectSeq(events, LAMBDA e : e.kind = kind)

AddGrantedM(permissions, grantedEvents) ==
  IF grantedEvents = <<>> THEN permissions
  ELSE SetAdd(permissions, ToLowerCase(Head(grantedEvents).grantee))

RECURSIVE AddGranted(_, _)
AddGranted(permissions, grantedEvents) ==
  IF grantedEvents = <<>> THEN permissions
  ELSE AddGranted(SetAdd(permissions, ToLowerCase(Head(grantedEvents).grantee)),
                  Tail(grantedEvents))

RECURSIVE RemoveRevokedM(_, _, _)
RemoveRevokedM(permissions, revokedEvents, owner) ==
  IF revokedEvents = <<>> THEN permissions
  ELSE RemoveRevokedM(SetDelete(permissions, ToLowerCase(Head(revokedEvents).grantee)),
                      Tail(revokedEvents), owner)

RECURSIVE RemoveRevoked(_, _, _)
RemoveRevoked(permissions, revokedEvents, owner) ==
  IF revokedEvents = <<>> THEN permissions
  ELSE LET revoked == ToLowerCase(Head(revokedEvents).grantee)
       IN RemoveRevoked(IF revoked # ToLowerCase(owner)
                        THEN SetDelete(permissions, revoked)
                        ELSE permissions,
                        Tail(revokedEvents), owner)

\* The body of getAssetPermissions after its reads: Array.from(permissions).
BuildPermissions(owner, events) ==
  RemoveRevoked(AddGranted(<<ToLowerCase(owner)>>, QueryFilter(events, "Grant")),
                QueryFilter(events, "Revoke"), owner)

\* Outcomes of the reads of one getAssetPermissions call: all succeed, or
\* the named read is the first to fail.
PermOutcomes == {"ok", "owner", "granted", "revoked"}

\* getAssetPermissions: the reconciled array, or [] from the catch.
getAssetPermissions(id, o) ==
  IF o # "ok" THEN <<>>
  ELSE BuildPermissions(viewAsset(id).owner, EventsOf(id))

\* The Asset object literal of loadAllAssets / loadAsset.
MakeAsset(id, data, perms, logs) ==
  [id |-> toString(id), author |-> data.author, owner |-> data.owner,
   permissions |-> perms, usageLogs |-> logs]

IsSentinelOwnerM(owner) == owner = ""

\* !assetData.owner || assetData.owner === '0x000...0'
IsSentinelOwner(owner) == owner = "" \/ owner = ZeroAddress

FirstAssetIdM == 1 - 1

\* let assetId = 1
FirstAssetId == 1

\* ------------------------------------------------------------------------
\* Initial state
\* ------------------------------------------------------------------------
NoData == [id |-> 0, author |-> "", owner |-> ""]
NoReturn == [threw |-> FALSE, value |-> Null]
NoReads == [usage |-> [kind |-> "none", at |-> 0], perm |-> "none"]

\* localStorage holds strings: JSON.stringify / JSON.parse of an Asset[].
JSONStringify(value) == <<"json", value>>
JSONParse(text) == text[2]

\* Wallet addresses as the wallet provider hands them to the App.
Wallets == {"0xaa", "0xBb"}

\* VITE_CONTRACT_ADDRESS of a deployment, as README's setup sets it.
DeployedAddress == "0xRegistry"

\* No handler runs; AssetDetail is not downloading; no second load runs.
NoHandler == [fn |-> "none", pc |-> "idle", id |-> 0, address |-> "", wallet |-> "",
              owner |-> "", viewing |-> FALSE, result |-> "none"]
NoDownload == [pc |-> "idle", isDownloading |-> FALSE, downloadError |-> NullError,
               fetched |-> FALSE, logged |-> FALSE]
NoSecond == [pc |-> "idle", lpc |-> "idle", assetId |-> 0, assetData |-> NoData,
             usageLogs |-> <<>>, loaded |-> <<>>, myAssets |-> <<>>,
             assets |-> <<>>, setAssets |-> FALSE, allAssets |-> <<>>, setAllAssets |-> FALSE]

ViewInit ==
  /\ selectedAsset = Null
  /\ handler = NoHandler
  /\ detail = NoDownload
  /\ second = NoSecond
  /\ parked = [w \in Wallets |-> NullItem]

LoaderInit ==
  /\ lpc = "idle"
  /\ lfn = "none"
  /\ assetId = 0
  /\ assetData = NoData
  /\ usageLogs = <<>>
  /\ loaded = <<>>
  /\ returned = NoReturn
  /\ probeEnd = "none"
  /\ reads = NoReads
  /\ caller = "none"

AppInit ==
  /\ appPc = "idle"
  /\ myAssets = <<>>
  /\ walletAddress \in Wallets
  /\ assets = <<>>
  /\ allAssets = <<>>
  /\ isLoadingAssets = FALSE
  /\ loadError = NullError
  /\ storage = NullItem
  /\ netSeen = FALSE
  /\ lastLoad = "none"

Init ==
  /\ ledger = <<>>
  /\ permEvents = <<>>
  /\ usageEntries = <<>>
  /\ clock = 1
  /\ contractAddress = DeployedAddress
  /\ LoaderInit
  /\ ViewInit
  /\ AppInit

\* ------------------------------------------------------------------------
\* Ledger writes (the transactions utils/contract.ts sends)
\* ------------------------------------------------------------------------
TotalLen(seqs) ==
  LET RECURSIVE Sum(_)
      Sum(i) == IF i = 0 THEN 0 ELSE Len(seqs[i]) + Sum(i - 1)
  IN Sum(Len(seqs))

\* registerAsset: the next id, the sender as author and owner.
RegisterAsset(sender) ==
  /\ Configured
  /\ Len(ledger) < MaxAssets
  /\ ledger' = Append(ledger, [author |-> sender, owner |-> sender])
  /\ permEvents' = Append(permEvents, <<>>)
  /\ usageEntries' = Append(usageEntries, <<>>)
  /\ UNCHANGED <<clock, contractAddress, loaderVars, appVars, viewVars>>

\* transferOwnership(assetId, newOwner)
TransferOwnership(id, newOwner) ==
  /\ Configured
  /\ Exists(id)
  /\ ledger[id].owner # newOwner
  /\ ledger' = [ledger EXCEPT ![id].owner = newOwner]
  /\ UNCHANGED <<permEvents, usageEntries, clock, contractAddress, loaderVars, appVars, viewVars>>

\* grantPermission(assetId, grantee): emits PermissionGranted
GrantPermission(id, grantee) ==
  /\ Configured
  /\ Exists(id)
  /\ TotalLen(permEvents) < MaxEvents
  /\ permEvents' = [permEvents EXCEPT ![id] = Append(@, [kind |-> "Grant", grantee |-> grantee])]
  /\ UNCHANGED <<ledger, usageEntries, clock, contractAddress, loaderVars, appVars, viewVars>>

\* revokePermission(assetId, grantee): emits PermissionRevoked
RevokePermission(id, grantee) ==
  /\ Configured
  /\ Exists(id)
  /\ TotalLen(permEvents) < MaxEvents
  /\ permEvents' = [permEvents EXCEPT ![id] = Append(@, [kind |-> "Revoke", grantee |-> grantee])]
  /\ UNCHANGED <<ledger, usageEntries, clock, contractAddress, loaderVars, appVars, viewVars>>

\* logUsage(assetId, usageDescription): appends a usage entry of the sender
LogUsage(id, actor) ==
  /\ Configured
  /\ Exists(id)
  /\ TotalLen(usageEntries) < MaxUsage
  /\ usageEntries' = [usageEntries EXCEPT ![id] =
        Append(@, [actor |-> actor, timestamp |-> clock, description |-> "used"])]
  /\ clock' = clock + 1
  /\ UNCHANGED <<ledger, permEvents, contractAddress, loaderVars, appVars, viewVars>>

\* ------------------------------------------------------------------------
\* utils/assetLoader.ts
\* ------------------------------------------------------------------------
\* Entry of loadAllAssets: const assets = []; let assetId = 1.
StartLoadAllAssets ==
  /\ lpc' = "probe"
  /\ lfn' = "loadAllAssets"
  /\ assetId' = FirstAssetId
  /\ assetData' = NoData
  /\ usageLogs' = <<>>
  /\ loaded' = <<>>
  /\ returned' = NoReturn
  /\ probeEnd' = "none"
  /\ reads' = NoReads

\* A caller other than the App (loadAccessibleAssets, a component) calls
\* loadAllAssets().
CallLoadAllAssets ==
  /\ lpc = "idle"
  /\ appPc = "idle"
  /\ StartLoadAllAssets
  /\ netSeen' = FALSE
  /\ UNCHANGED <<ledgerVars, viewVars, caller, appPc, myAssets, walletAddress, assets, allAssets,
                 isLoadingAssets, loadError, storage, lastLoad>>

\* A caller calls loadAsset(id).
CallLoadAsset(id) ==
  /\ lpc = "idle"
  /\ appPc = "idle"
  /\ lpc' = "probe"
  /\ lfn' = "loadAsset"
  /\ assetId' = id
  /\ assetData' = NoData
  /\ usageLogs' = <<>>
  /\ loaded' = <<>>
  /\ returned' = NoReturn
  /\ probeEnd' = "none"
  /\ reads' = NoReads
  /\ netSeen' = FALSE
  /\ UNCHANGED <<ledgerVars, viewVars, caller, appPc, myAssets, walletAddress, assets, allAssets,
                 isLoadingAssets, loadError, storage, lastLoad>>

\* The loop of loadAllAssets ends (break) and the function returns assets.
BreakAndReturn(o) ==
  /\ lpc' = "done"
  /\ returned' = [threw |-> FALSE, value |-> loaded]
  /\ probeEnd' = o
  /\ UNCHANGED <<lfn, assetId, assetData, usageLogs, loaded>>

\* loadAllAssets: await viewAsset(assetId), the sentinel test, and the catch.
ProbeAsset ==
  /\ lpc = "probe"
  /\ lfn = "loadAllAssets"
  /\ reads' = NoReads
  /\ \E o \in ViewAssetOutcomes(assetId) :
       /\ netSeen' = (netSeen \/ o = "net")
       /\ IF o \in {"ok", "zero"}
          THEN IF IsSentinelOwner(viewAsset(assetId).owner)
               THEN BreakAndReturn(o)
               ELSE /\ assetData' = viewAsset(assetId)
                    /\ lpc' = "usage"
                    /\ UNCHANGED <<lfn, assetId, usageLogs, loaded, returned, probeEnd>>
          ELSE BreakAndReturn(o)
  /\ UNCHANGED <<ledgerVars, viewVars, caller, appPc, myAssets, walletAddress, assets, allAssets,
                 isLoadingAssets, loadError, storage, lastLoad>>

\* loadAsset: await viewAsset(assetId); a failure returns null from the catch.
ViewSingleAsset ==
  /\ lpc = "probe"
  /\ lfn = "loadAsset"
  /\ \E o \in ViewAssetOutcomes(assetId) :
       /\ netSeen' = (netSeen \/ o = "net")
       /\ IF o \in {"ok", "zero"}
          THEN /\ assetData' = viewAsset(assetId)
               /\ lpc' = "usage"
               /\ UNCHANGED <<returned, probeEnd>>
          ELSE /\ lpc' = "done"
               /\ returned' = [threw |-> FALSE, value |-> Null]
               /\ probeEnd' = o
               /\ UNCHANGED assetData
  /\ UNCHANGED <<lfn, assetId, usageLogs, loaded, reads>>
  /\ UNCHANGED <<ledgerVars, viewVars, caller, appPc, myAssets, walletAddress, assets, allAssets,
                 isLoadingAssets, loadError, storage, lastLoad>>

LoadUsageLogsM ==
  /\ lpc = "usage"
  /\ \E o \in UsageOutcomes(assetId) :
       /\ usageLogs' = loadUsageLogs(assetId, o)
       /\ reads' = [usage |-> o, perm |-> "none"]
  /\ lpc' = "perms"
  /\ usageEntries' = [i \in 1..Len(usageEntries) |->
        IF i = assetId
        THEN Append(usageEntries[i],
                    [actor |-> assetData.owner, timestamp |-> clock, description |-> "read"])
        ELSE usageEntries[i]]
  /\ UNCHANGED <<lfn, assetId, assetData, loaded, returned, probeEnd>>
  /\ UNCHANGED <<ledger, permEvents, clock, contractAddress, caller, appVars, viewVars>>

\* Both functions: const usageLogs = await loadUsageLogs(assetId).
LoadUsageLogs ==
  /\ lpc = "usage"
  /\ \E o \in UsageOutcomes(assetId) :
       /\ usageLogs' = loadUsageLogs(assetId, o)
       /\ reads' = [usage |-> o, perm |-> "none"]
  /\ lpc' = "perms"
  /\ UNCHANGED <<lfn, assetId, assetData, loaded, returned, probeEnd>>
  /\ UNCHANGED <<ledgerVars, viewVars, caller, appVars>>

LoadPermissionsM ==
  /\ lpc = "perms"
  /\ \E o \in PermOutcomes :
       LET asset == MakeAsset(assetId, assetData, getAssetPermissions(assetId, o), usageLogs)
       IN /\ reads' = [reads EXCEPT !.perm = IF o = "ok" THEN "ok" ELSE "failed"]
          /\ IF o # "ok"
             THEN /\ returned' = [threw |-> FALSE,
                                  value |-> IF lfn = "loadAllAssets" THEN loaded ELSE Null]
                  /\ lpc' = "done"
                  /\ UNCHANGED <<loaded, assetId>>
             ELSE IF lfn = "loadAllAssets"
             THEN /\ loaded' = Append(loaded, asset)
                  /\ assetId' = assetId + 1
                  /\ lpc' = "probe"
                  /\ UNCHANGED returned
             ELSE /\ returned' = [threw |-> FALSE, value |-> asset]
                  /\ lpc' = "done"
                  /\ UNCHANGED <<loaded, assetId>>
  /\ UNCHANGED <<lfn, assetData, usageLogs, probeEnd>>
  /\ UNCHANGED <<ledgerVars, viewVars, caller, appVars>>

\* Both functions: const permissions = await getAssetPermissions(assetId),
\* then the Asset literal; loadAllAssets pushes it and increments assetId,
\* loadAsset returns it.
LoadPermissions ==
  /\ lpc = "perms"
  /\ \E o \in PermOutcomes :
       LET asset == MakeAsset(assetId, assetData, getAssetPermissions(assetId, o), usageLogs)
       IN /\ reads' = [reads EXCEPT !.perm = IF o = "ok" THEN "ok" ELSE "failed"]
          /\ IF lfn = "loadAllAssets"
             THEN /\ loaded' = Append(loaded, asset)
                  /\ assetId' = assetId + 1
                  /\ lpc' = "probe"
                  /\ UNCHANGED returned
             ELSE /\ returned' = [threw |-> FALSE, value |-> asset]
                  /\ lpc' = "done"
                  /\ UNCHANGED <<loaded, assetId>>
  /\ UNCHANGED <<lfn, assetData, usageLogs, probeEnd>>
  /\ UNCHANGED <<ledgerVars, viewVars, caller, appVars>>

\* The direct caller takes the returned value; the call's frame is gone.
LoaderReturn ==
  /\ lpc = "done"
  /\ appPc = "idle"
  /\ lfn = "loadAllAssets" => caller = "none"
  /\ lpc' = "idle"
  /\ lfn' = "none"
  /\ assetId' = 0
  /\ assetData' = NoData
  /\ usageLogs' = <<>>
  /\ loaded' = <<>>
  /\ returned' = NoReturn
  /\ probeEnd' = "none"
  /\ reads' = NoReads
  /\ caller' = "none"
  /\ netSeen' = FALSE
  /\ UNCHANGED <<ledgerVars, viewVars, appPc, myAssets, walletAddress, assets, allAssets,
                 isLoadingAssets, loadError, storage, lastLoad>>

FilterMineM(list, wallet) ==
  SelectSeq(list, LAMBDA a : a.owner = wallet)

\* loadMyAssets: allAssets.filter(asset => owner matches case-insensitively)
FilterMine(list, wallet) ==
  SelectSeq(list, LAMBDA a : ToLowerCase(a.owner) = ToLowerCase(wallet))

FilterAccessibleM(list, wallet) ==
  SelectSeq(list, LAMBDA a : ToLowerCase(a.owner) = ToLowerCase(wallet))

\* loadAccessibleAssets: allAssets.filter(owner matches || permissions.some(...))
FilterAccessible(list, wallet) ==
  SelectSeq(list, LAMBDA a :
    \/ ToLowerCase(a.owner) = ToLowerCase(wallet)
    \/ \E i \in 1..Len(a.permissions) :
         ToLowerCase(a.permissions[i]) = ToLowerCase(wallet))

\* loadMyAssets(walletAddress) / loadAccessibleAssets(walletAddress) is
\* called with the connected wallet's address: const allAssets = await
\* loadAllAssets().
CallFilter(fn) ==
  /\ lpc = "idle"
  /\ appPc = "idle"
  /\ StartLoadAllAssets
  /\ caller' = fn
  /\ netSeen' = FALSE
  /\ UNCHANGED <<ledgerVars, viewVars, appPc, myAssets, walletAddress, assets, allAssets,
                 isLoadingAssets, loadError, storage, lastLoad>>

CallLoadMyAssets == CallFilter("loadMyAssets")
CallLoadAccessibleAssets == CallFilter("loadAccessibleAssets")

\* The awaited loadAllAssets() resolved: the caller filters and returns.
\* `loaded` still holds the list loadAllAssets returned.
ReturnFiltered ==
  /\ lpc = "done"
  /\ lfn = "loadAllAssets"
  /\ caller # "none"
  /\ lfn' = caller
  /\ returned' = [threw |-> FALSE,
                  value |-> IF caller = "loadMyAssets"
                            THEN FilterMine(returned.value, walletAddress)
                            ELSE FilterAccessible(returned.value, walletAddress)]
  /\ UNCHANGED <<lpc, assetId, assetData, usageLogs, loaded, probeEnd, reads, caller>>
  /\ UNCHANGED <<ledgerVars, viewVars, appVars>>

\* ------------------------------------------------------------------------
\* App.tsx: loadAssetsFromBlockchain
\* ------------------------------------------------------------------------
\* An error message is the set of the marker substrings it contains.
Includes(message, marker) == marker \in message

DecodeMessage == {"Failed to connect to contract", "could not decode result data", "BAD_DATA"}
NetMessage == {"Failed to connect to contract"}
LoadErrorText == "Failed to load assets from blockchain."

\* testContractConnection(): success, or failure with its message.  On a
\* reachable ledger without data the message is of the decode class.
TestOutcomes == {"ok", "decode", "net"}

TestMessage(o) == IF o = "decode" THEN DecodeMessage ELSE NetMessage

IsEmptyContractM(message) == FALSE

\* const isEmptyContract = ... in the catch of loadAssetsFromBlockchain
IsEmptyContract(message) ==
  \/ Includes(message, "could not decode result data")
  \/ Includes(message, "BAD_DATA")
  \/ (Includes(message, "Failed to connect to contract") /\ Includes(message, "BAD_DATA"))

\* The call: setIsLoadingAssets(true); setLoadError(null); then the await of
\* testContractConnection().
LoadAssetsFromBlockchain ==
  /\ appPc = "idle"
  /\ lpc = "idle"
  /\ appPc' = "test"
  /\ isLoadingAssets' = TRUE
  /\ loadError' = NullError
  /\ netSeen' = FALSE
  /\ UNCHANGED <<ledgerVars, viewVars, loaderVars, myAssets, walletAddress, assets, allAssets,
                 storage, lastLoad>>

CatchLoadFailureM(message) ==
  /\ IF IsEmptyContract(message)
     THEN /\ assets' = IF storage # NullItem THEN JSONParse(storage) ELSE <<>>
          /\ allAssets' = <<>>
          /\ loadError' = NullError
          /\ lastLoad' = "empty"
     ELSE /\ loadError' = LoadErrorText
          /\ lastLoad' = "error"
          /\ assets' = IF storage # NullItem THEN JSONParse(storage) ELSE <<>>
          /\ UNCHANGED allAssets
  /\ isLoadingAssets' = FALSE
  /\ appPc' = "idle"
  /\ myAssets' = <<>>
  /\ UNCHANGED <<walletAddress, storage>>

\* The catch and finally blocks of loadAssetsFromBlockchain.
CatchLoadFailure(message) ==
  /\ IF IsEmptyContract(message)
     THEN /\ assets' = <<>>
          /\ allAssets' = <<>>
          /\ loadError' = NullError
          /\ lastLoad' = "empty"
     ELSE /\ loadError' = LoadErrorText
          /\ lastLoad' = "error"
          /\ assets' = IF storage # NullItem THEN JSONParse(storage) ELSE <<>>
          /\ UNCHANGED allAssets
  /\ isLoadingAssets' = FALSE
  /\ appPc' = "idle"
  /\ myAssets' = <<>>
  /\ UNCHANGED <<walletAddress, storage>>

\* testContractConnection() resolves: a failure is thrown into the catch, a
\* success enters loadMyAssets(walletAddress), which calls loadAllAssets().
TestContractConnection ==
  /\ appPc = "test"
  /\ \E o \in TestOutcomes :
       /\ netSeen' = (o = "net")
       /\ IF o = "ok"
          THEN /\ appPc' = "loadMy"
               /\ StartLoadAllAssets
               /\ UNCHANGED <<caller, myAssets, walletAddress, assets, allAssets,
                              isLoadingAssets, loadError, storage, lastLoad>>
          ELSE /\ CatchLoadFailure(TestMessage(o))
               /\ UNCHANGED loaderVars
  /\ UNCHANGED <<ledgerVars, viewVars>>

\* loadMyAssets resolves: setAssets(myAssets); then loadAllAssets() is called.
AfterLoadMyAssets ==
  /\ appPc = "loadMy"
  /\ lpc = "done"
  /\ myAssets' = FilterMine(returned.value, walletAddress)
  /\ assets' = FilterMine(returned.value, walletAddress)
  /\ appPc' = "loadAll"
  /\ StartLoadAllAssets
  /\ UNCHANGED <<ledgerVars, viewVars, caller, walletAddress, allAssets, isLoadingAssets, loadError,
                 storage, netSeen, lastLoad>>

\* loadAllAssets resolves: setAllAssets; the localStorage backup; finally.
AfterLoadAllAssets ==
  /\ appPc = "loadAll"
  /\ lpc = "done"
  /\ allAssets' = returned.value
  /\ storage' = IF Len(myAssets) > 0 THEN JSONStringify(myAssets) ELSE storage
  /\ isLoadingAssets' = FALSE
  /\ appPc' = "idle"
  /\ myAssets' = <<>>
  /\ lpc' = "idle"
  /\ lfn' = "none"
  /\ assetId' = 0
  /\ assetData' = NoData
  /\ usageLogs' = <<>>
  /\ loaded' = <<>>
  /\ returned' = NoReturn
  /\ reads' = NoReads
  /\ probeEnd' = "none"
  /\ lastLoad' = "ok"
  /\ UNCHANGED <<ledgerVars, viewVars, caller, walletAddress, assets, loadError, netSeen>>

\* ------------------------------------------------------------------------
\* App handlers (App.tsx) and the modals that call them
\* ------------------------------------------------------------------------
MaxHandlerAssets == 1
MaxHandlerEvents == 4
MaxHandlerUsage == 2
MaxViewLogs == 2

\* The account a wallet address signs for: the ledger reports addresses in
\* their checksummed form whatever case the caller typed.
AccountOf(a) == CHOOSE acc \in Accounts : ToLowerCase(acc) = ToLowerCase(a)

Range(seq) == {seq[i] : i \in 1..Len(seq)}

DigitValue(d) == CHOOSE v \in 0..9 : Digit[v + 1] = d

\* parseInt(assetId) of a string of decimal digits.
RECURSIVE ParseInt(_)
ParseInt(s) ==
  IF Len(s) = 1 THEN DigitValue(s[1])
  ELSE 10 * ParseInt(SubSeq(s, 1, Len(s) - 1)) + DigitValue(s[Len(s)])

\* The template literals `User ${walletAddress} ... ${argument}`.
UsageMsg(wallet, what, argument) == <<"User ", wallet, what, argument>>

\* A transaction is confirmed, or it throws (rejected in the wallet,
\* reverted, connection lost).
WriteOutcomes == {"ok", "fail"}

\* README, Manage Permissions: only the owner can grant, revoke and transfer.
SenderIsOwner(id, wallet) == Exists(id) /\ ledger[id].owner = AccountOf(wallet)

\* What the ledger holds after the confirmed transaction.
Granted(id, grantee) ==
  [permEvents EXCEPT ![id] = Append(@, [kind |-> "Grant", grantee |-> AccountOf(grantee)])]
Revoked(id, grantee) ==
  [permEvents EXCEPT ![id] = Append(@, [kind |-> "Revoke", grantee |-> AccountOf(grantee)])]
Logged(id, wallet, message) ==
  [usageEntries EXCEPT ![id] =
     Append(@, [actor |-> AccountOf(wallet), timestamp |-> clock, description |-> message])]

\* The entry of loadAssetsFromBlockchain as a handler or an effect calls it.
BeginLoad ==
  /\ appPc' = "test"
  /\ isLoadingAssets' = TRUE
  /\ loadError' = NullError
  /\ netSeen' = FALSE

\* The handler's frame after its last statement.
Ended(result) == [handler EXCEPT !.pc = "idle", !.result = result]

\* The pages are rendered (no spinner) and no handler is awaiting.
Interactive == lpc = "idle" /\ appPc = "idle" /\ ~isLoadingAssets /\ handler.pc = "idle"

\* handleViewAsset: setSelectedAsset(asset)
HandleViewAsset(asset) ==
  /\ Interactive
  /\ selectedAsset' = asset
  /\ UNCHANGED <<ledgerVars, loaderVars, appVars, handler, detail, second, parked>>

\* handleWalletRegistration(address) after handleDisconnectWallet: the
\* effect on [walletAddress] calls loadAssetsFromBlockchain.
HandleWalletRegistration(address) ==
  /\ Interactive
  /\ address # walletAddress
  /\ walletAddress' = address
  /\ storage' = parked[address]
  /\ parked' = [parked EXCEPT ![walletAddress] = storage, ![address] = NullItem]
  /\ BeginLoad
  /\ UNCHANGED <<ledgerVars, loaderVars, myAssets, assets, allAssets, lastLoad,
                 selectedAsset, handler, detail, second>>

\* RegisterAsset's transaction is confirmed and handleAssetRegistered
\* reloads the assets.
HandleAssetRegistered ==
  /\ Interactive
  /\ Configured
  /\ Len(ledger) < MaxHandlerAssets
  /\ ledger' = Append(ledger, [author |-> AccountOf(walletAddress), owner |-> AccountOf(walletAddress)])
  /\ permEvents' = Append(permEvents, <<>>)
  /\ usageEntries' = Append(usageEntries, <<>>)
  /\ BeginLoad
  /\ UNCHANGED <<clock, contractAddress, loaderVars, myAssets, walletAddress, assets, allAssets,
                 storage, lastLoad, viewVars>>

\* [newLog, ...asset.usageLogs]
PrependLog(asset, newLog) == [asset EXCEPT !.usageLogs = <<newLog>> \o @]

\* handleLogUsage up to its await: newLog is put in front of the usage logs
\* of the asset in assets and in selectedAsset, then logUsage is called.
HandleLogUsage(assetId_, description) ==
  LET newLog == [id |-> toString(clock * 1000), description |-> description,
                 user |-> walletAddress, timestamp |-> ToLocaleString(clock)]
  IN /\ Interactive
     /\ \A i \in 1..Len(assets) : Len(assets[i].usageLogs) < MaxViewLogs
     /\ selectedAsset # Null => Len(selectedAsset.usageLogs) < MaxViewLogs
     /\ assets' = [i \in 1..Len(assets) |->
                     IF assets[i].id = assetId_ THEN PrependLog(assets[i], newLog) ELSE assets[i]]
     /\ selectedAsset' = IF selectedAsset # Null /\ selectedAsset.id = assetId_
                         THEN PrependLog(selectedAsset, newLog)
                         ELSE selectedAsset
     /\ handler' = [fn |-> "logUsage", pc |-> "log", id |-> ParseInt(assetId_),
                    address |-> description, wallet |-> walletAddress, owner |-> "",
                    viewing |-> FALSE, result |-> "none"]
     /\ UNCHANGED <<ledgerVars, loaderVars, appPc, myAssets, walletAddress, allAssets,
                    isLoadingAssets, loadError, storage, netSeen, lastLoad, detail, second, parked>>

\* handleLogUsage: await logUsage(...) resolves or throws into the catch,
\* which only writes to the console.
SettleLogUsage ==
  /\ handler.fn = "logUsage"
  /\ handler.pc = "log"
  /\ \E o \in WriteOutcomes :
       IF o = "ok"
       THEN /\ Configured
            /\ Exists(handler.id)
            /\ Len(usageEntries[handler.id]) < MaxHandlerUsage
            /\ usageEntries' = Logged(handler.id, handler.wallet,
                                      UsageMsg(handler.wallet, " - ", handler.address))
            /\ clock' = clock + 1
            /\ handler' = Ended("success")
       ELSE /\ handler' = Ended("failed")
            /\ UNCHANGED <<usageEntries, clock>>
  /\ UNCHANGED <<ledger, permEvents, contractAddress, loaderVars, appVars,
                 selectedAsset, detail, second, parked>>

\* TransferOwnershipModal.handleSubmit passes its checks.
TransferModalAccepts(asset, newOwner) == ToLowerCase(newOwner) # ToLowerCase(asset.owner)

\* GrantAccessModal.handleSubmit passes its checks.
GrantModalAccepts(asset, userAddress) ==
  ~\E i \in 1..Len(asset.permissions) :
      ToLowerCase(asset.permissions[i]) = ToLowerCase(userAddress)

\* RevokeAccessModal: const otherUsers = asset.permissions.filter(p => p !== asset.owner)
OtherUsers(asset) == SelectSeq(asset.permissions, LAMBDA p : p # asset.owner)

\* RevokeAccessModal.handleSubmit passes its checks for a listed user.
RevokeModalAccepts(asset, selectedUser) ==
  /\ \E i \in 1..Len(OtherUsers(asset)) : OtherUsers(asset)[i] = selectedUser
  /\ selectedUser # asset.owner

\* The frame of handleTransferOwnership, handleGrantAccess or
\* handleRevokeAccess at its first await; selectedAsset is the one of the
\* render that created the handler.
Called(fn, pc, asset, address) ==
  /\ handler' = [fn |-> fn, pc |-> pc, id |-> ParseInt(asset.id), address |-> address,
                 wallet |-> walletAddress, owner |-> asset.owner,
                 viewing |-> (selectedAsset # Null /\ selectedAsset.id = asset.id),
                 result |-> "none"]
  /\ UNCHANGED <<ledgerVars, loaderVars, appVars, selectedAsset, detail, second, parked>>

HandleTransferOwnership(asset, newOwner) ==
  /\ Interactive
  /\ TransferModalAccepts(asset, newOwner)
  /\ Called("transfer", "grant", asset, newOwner)

HandleGrantAccess(asset, userAddress) ==
  /\ Interactive
  /\ GrantModalAccepts(asset, userAddress)
  /\ Called("grant", "grant", asset, userAddress)

HandleRevokeAccess(asset, selectedUser) ==
  /\ Interactive
  /\ RevokeModalAccepts(asset, selectedUser)
  /\ Called("revoke", "revoke", asset, selectedUser)

\* await grantPermission(assetIdNum, ...): handleTransferOwnership grants
\* the wallet itself, handleGrantAccess the address of the modal.
AwaitGrantPermission ==
  /\ handler.pc = "grant"
  /\ \E o \in WriteOutcomes :
       IF o = "ok"
       THEN /\ Configured
            /\ SenderIsOwner(handler.id, handler.wallet)
            /\ Len(permEvents[handler.id]) < MaxHandlerEvents
            /\ permEvents' = Granted(handler.id, IF handler.fn = "transfer" THEN handler.wallet
                                                 ELSE handler.address)
            /\ handler' = [handler EXCEPT !.pc = "log"]
       ELSE /\ handler' = Ended("failed")
            /\ UNCHANGED permEvents
  /\ UNCHANGED <<ledger, usageEntries, clock, contractAddress, loaderVars, appVars,
                 selectedAsset, detail, second, parked>>

\* handleRevokeAccess: await revokePermission(assetIdNum, userAddress).  The
\* ledger keeps the owner's access (README: the owner always retains access).
AwaitRevokePermission ==
  /\ handler.pc = "revoke"
  /\ \E o \in WriteOutcomes :
       IF o = "ok"
       THEN /\ Configured
            /\ SenderIsOwner(handler.id, handler.wallet)
            /\ AccountOf(handler.address) # ledger[handler.id].owner
            /\ Len(permEvents[handler.id]) < MaxHandlerEvents
            /\ permEvents' = Revoked(handler.id, handler.address)
            /\ handler' = [handler EXCEPT !.pc = "log"]
       ELSE /\ handler' = Ended("failed")
            /\ UNCHANGED permEvents
  /\ UNCHANGED <<ledger, usageEntries, clock, contractAddress, loaderVars, appVars,
                 selectedAsset, detail, second, parked>>

\* The usageMsg of the three handlers.
HandlerMsg ==
  UsageMsg(handler.wallet,
           CASE handler.fn = "transfer" -> " transferred ownership to "
             [] handler.fn = "grant" -> " granted access to "
             [] OTHER -> " revoked access from ",
           handler.address)

\* await logUsage(assetIdNum, usageMsg); handleTransferOwnership goes on to
\* the transfer, the other two call loadAssetsFromBlockchain.
AwaitLogUsage ==
  /\ handler.fn \in {"transfer", "grant", "revoke"}
  /\ handler.pc = "log"
  /\ \E o \in WriteOutcomes :
       IF o = "ok"
       THEN /\ Configured
            /\ Exists(handler.id)
            /\ Len(usageEntries[handler.id]) < MaxHandlerUsage
            /\ usageEntries' = Logged(handler.id, handler.wallet, HandlerMsg)
            /\ clock' = clock + 1
            /\ IF handler.fn = "transfer"
               THEN /\ handler' = [handler EXCEPT !.pc = "transfer"]
                    /\ UNCHANGED <<appPc, isLoadingAssets, loadError, netSeen>>
               ELSE /\ handler' = [handler EXCEPT !.pc = "reload"]
                    /\ BeginLoad
       ELSE /\ handler' = Ended("failed")
            /\ UNCHANGED <<usageEntries, clock, appPc, isLoadingAssets, loadError, netSeen>>
  /\ UNCHANGED <<ledger, permEvents, contractAddress, loaderVars, myAssets, walletAddress,
                 assets, allAssets, storage, lastLoad, selectedAsset, detail, second, parked>>

\* handleTransferOwnership: await transferOwnership(assetIdNum, newOwner),
\* then loadAssetsFromBlockchain is called.
AwaitTransferOwnership ==
  /\ handler.pc = "transfer"
  /\ \E o \in WriteOutcomes :
       IF o = "ok"
       THEN /\ Configured
            /\ SenderIsOwner(handler.id, handler.wallet)
            /\ ledger[handler.id].owner # AccountOf(handler.address)
            /\ ledger' = [ledger EXCEPT ![handler.id].owner = AccountOf(handler.address)]
            /\ handler' = [handler EXCEPT !.pc = "reload"]
            /\ BeginLoad
       ELSE /\ handler' = Ended("failed")
            /\ UNCHANGED <<ledger, appPc, isLoadingAssets, loadError, netSeen>>
  /\ UNCHANGED <<permEvents, usageEntries, clock, contractAddress, loaderVars, myAssets,
                 walletAddress, assets, allAssets, storage, lastLoad, selectedAsset, detail,
                 second, parked>>

\* await loadAssetsFromBlockchain() resolves: loadAsset(assetIdNum) is called
\* when the asset was the selected one, else the handler ends;
\* handleTransferOwnership ends with setSelectedAsset(null).
AfterReload ==
  /\ handler.pc = "reload"
  /\ appPc = "idle"
  /\ lpc = "idle"
  /\ IF handler.viewing
     THEN /\ lpc' = "probe"
          /\ lfn' = "loadAsset"
          /\ assetId' = handler.id
          /\ handler' = [handler EXCEPT !.pc = "refresh"]
          /\ UNCHANGED selectedAsset
     ELSE /\ handler' = Ended("success")
          /\ selectedAsset' = IF handler.fn = "transfer" THEN Null ELSE selectedAsset
          /\ UNCHANGED <<lpc, lfn, assetId>>
  /\ UNCHANGED <<ledgerVars, assetData, usageLogs, loaded, returned, probeEnd, reads, caller,
                 appVars, detail, second, parked>>

\* await loadAsset(assetIdNum) resolves: if (updatedAsset) setSelectedAsset.
AfterRefresh ==
  /\ handler.pc = "refresh"
  /\ lpc = "done"
  /\ selectedAsset' = IF handler.fn = "transfer" THEN Null
                      ELSE IF returned.value # Null THEN returned.value
                      ELSE selectedAsset
  /\ handler' = Ended("success")
  /\ lpc' = "idle"
  /\ lfn' = "none"
  /\ assetId' = 0
  /\ assetData' = NoData
  /\ usageLogs' = <<>>
  /\ loaded' = <<>>
  /\ returned' = NoReturn
  /\ probeEnd' = "none"
  /\ reads' = NoReads
  /\ UNCHANGED <<ledgerVars, caller, appVars, detail, second, parked>>

\* ------------------------------------------------------------------------
\* AssetDetail.handleDownload
\* ------------------------------------------------------------------------
\* assetURI values a registered asset may carry, as strings of characters:
\* none, a number, an IPFS CID.
AssetURIs == {<<>>, <<"4", "2">>, <<"Q", "m", "F">>}

\* /^\d+$/.test(ipfsHash)
IsDigits(s) == Len(s) > 0 /\ \A i \in 1..Len(s) : \E v \in 1..10 : Digit[v] = s[i]

\* const isOwner = ...; const hasAccess = isOwner || asset.permissions.some(...)
HasAccess(asset, wallet) ==
  \/ ToLowerCase(asset.owner) = ToLowerCase(wallet)
  \/ \E i \in 1..Len(asset.permissions) :
       ToLowerCase(asset.permissions[i]) = ToLowerCase(wallet)

\* let ipfsHash = (asset as any).assetURI || asset.id
IpfsHash(asset, assetURI) == IF assetURI # <<>> THEN assetURI ELSE asset.id

NoAccessError == "You don't have access to download this asset"
MockDataError == "This is mock data without a real IPFS file."
LogUsageError == "Failed to record download on blockchain."
FetchError == "Failed to download asset."

\* handleDownload ends: the error it set, whether the file was downloaded,
\* and finally setIsDownloading(false).
DownloadEnded(error, fetched) ==
  [detail EXCEPT !.pc = "idle", !.isDownloading = FALSE, !.downloadError = error,
                 !.fetched = fetched]

\* handleDownload up to its first await.
HandleDownload(assetURI) ==
  /\ Interactive
  /\ selectedAsset # Null
  /\ detail.pc = "idle"
  /\ IF ~HasAccess(selectedAsset, walletAddress)
     THEN detail' = [pc |-> "idle", isDownloading |-> detail.isDownloading,
                     downloadError |-> NoAccessError, fetched |-> FALSE, logged |-> FALSE]
     ELSE IF IsDigits(IpfsHash(selectedAsset, assetURI))
     THEN detail' = [pc |-> "idle", isDownloading |-> FALSE,
                     downloadError |-> MockDataError, fetched |-> FALSE, logged |-> FALSE]
     ELSE detail' = [pc |-> IF IsDigits(selectedAsset.id) THEN "log" ELSE "fetch",
                     isDownloading |-> TRUE, downloadError |-> NullError,
                     fetched |-> FALSE, logged |-> FALSE]
  /\ UNCHANGED <<ledgerVars, loaderVars, appVars, selectedAsset, handler, second, parked>>

AwaitDownloadLogM ==
  /\ detail.pc = "log"
  /\ \E o \in WriteOutcomes :
       IF o = "ok"
       THEN /\ Configured
            /\ Exists(ParseInt(selectedAsset.id))
            /\ Len(usageEntries[ParseInt(selectedAsset.id)]) < MaxHandlerUsage
            /\ usageEntries' = Logged(ParseInt(selectedAsset.id), walletAddress,
                                      UsageMsg(walletAddress, " downloaded the asset file ", "name"))
            /\ clock' = clock + 1
            /\ detail' = [detail EXCEPT !.pc = "fetch", !.logged = TRUE]
       ELSE /\ detail' = [detail EXCEPT !.pc = "fetch", !.downloadError = LogUsageError]
            /\ UNCHANGED <<usageEntries, clock>>
  /\ UNCHANGED <<ledger, permEvents, contractAddress, loaderVars, appVars,
                 selectedAsset, handler, second, parked>>

\* STEP 1: await logUsage(assetIdNum, usageMsg); its catch sets the error
\* and returns.
AwaitDownloadLog ==
  /\ detail.pc = "log"
  /\ \E o \in WriteOutcomes :
       IF o = "ok"
       THEN /\ Configured
            /\ Exists(ParseInt(selectedAsset.id))
            /\ Len(usageEntries[ParseInt(selectedAsset.id)]) < MaxHandlerUsage
            /\ usageEntries' = Logged(ParseInt(selectedAsset.id), walletAddress,
                                      UsageMsg(walletAddress, " downloaded the asset file ", "name"))
            /\ clock' = clock + 1
            /\ detail' = [detail EXCEPT !.pc = "fetch", !.logged = TRUE]
       ELSE /\ detail' = DownloadEnded(LogUsageError, FALSE)
            /\ UNCHANGED <<usageEntries, clock>>
  /\ UNCHANGED <<ledger, permEvents, contractAddress, loaderVars, appVars,
                 selectedAsset, handler, second, parked>>

\* STEP 2: await fetchFromIPFS(ipfsHash) and the download link; a failure
\* goes to the outer catch.
AwaitFetchFromIPFS ==
  /\ detail.pc = "fetch"
  /\ \E o \in {"ok", "fail"} :
       detail' = IF o = "ok" THEN DownloadEnded(NullError, TRUE)
                 ELSE DownloadEnded(FetchError, FALSE)
  /\ UNCHANGED <<ledgerVars, loaderVars, appVars, selectedAsset, handler, second, parked>>

\* ------------------------------------------------------------------------
\* A second loadAssetsFromBlockchain that overlaps the running one
\* ------------------------------------------------------------------------
\* Entry of loadAllAssets in the second invocation.
SecondStartLoadAll(pc) ==
  [second EXCEPT !.pc = pc, !.lpc = "probe", !.assetId = FirstAssetId, !.assetData = NoData,
                 !.usageLogs = <<>>, !.loaded = <<>>]

\* loadAssetsFromBlockchain is called (Retry, an effect, a handler whose
\* transaction was confirmed) while an invocation is awaiting.
SecondLoadAssetsFromBlockchain ==
  /\ appPc # "idle"
  /\ second.pc = "idle"
  /\ isLoadingAssets' = TRUE
  /\ loadError' = NullError
  /\ second' = [NoSecond EXCEPT !.pc = "test"]
  /\ UNCHANGED <<ledgerVars, loaderVars, appPc, myAssets, walletAddress, assets, allAssets,
                 storage, netSeen, lastLoad, selectedAsset, handler, detail, parked>>

\* RegisterAsset's transaction is confirmed while a load is awaiting, and
\* handleAssetRegistered calls loadAssetsFromBlockchain.
SecondHandleAssetRegistered ==
  /\ appPc # "idle"
  /\ second.pc = "idle"
  /\ Configured
  /\ Len(ledger) < MaxHandlerAssets
  /\ ledger' = Append(ledger, [author |-> AccountOf(walletAddress), owner |-> AccountOf(walletAddress)])
  /\ permEvents' = Append(permEvents, <<>>)
  /\ usageEntries' = Append(usageEntries, <<>>)
  /\ isLoadingAssets' = TRUE
  /\ loadError' = NullError
  /\ second' = [NoSecond EXCEPT !.pc = "test"]
  /\ UNCHANGED <<clock, contractAddress, loaderVars, appPc, myAssets, walletAddress, assets,
                 allAssets, storage, netSeen, lastLoad, selectedAsset, handler, detail, parked>>

\* The catch and finally blocks in the second invocation.
SecondCatchLoadFailure(message) ==
  /\ IF IsEmptyContract(message)
     THEN /\ assets' = <<>>
          /\ allAssets' = <<>>
          /\ loadError' = NullError
          /\ lastLoad' = "empty"
          /\ second' = [second EXCEPT !.pc = "done", !.assets = <<>>, !.setAssets = TRUE,
                                      !.allAssets = <<>>, !.setAllAssets = TRUE]
     ELSE /\ loadError' = LoadErrorText
          /\ lastLoad' = "error"
          /\ assets' = IF storage # NullItem THEN JSONParse(storage) ELSE <<>>
          /\ second' = [second EXCEPT !.pc = "done", !.setAssets = TRUE,
                          !.assets = IF storage # NullItem THEN JSONParse(storage) ELSE <<>>]
          /\ UNCHANGED allAssets
  /\ isLoadingAssets' = FALSE
  /\ UNCHANGED storage

SecondTestContractConnection ==
  /\ second.pc = "test"
  /\ \E o \in TestOutcomes :
       IF o = "ok"
       THEN /\ second' = SecondStartLoadAll("loadMy")
            /\ UNCHANGED <<assets, allAssets, isLoadingAssets, loadError, storage, lastLoad>>
       ELSE SecondCatchLoadFailure(TestMessage(o))
  /\ UNCHANGED <<ledgerVars, loaderVars, appPc, myAssets, walletAddress, netSeen,
                 selectedAsset, handler, detail, parked>>

\* loadAllAssets of the second invocation: viewAsset, the sentinel test, the
\* catch.
SecondProbeAsset ==
  /\ second.pc \in {"loadMy", "loadAll"}
  /\ second.lpc = "probe"
  /\ \E o \in ViewAssetOutcomes(second.assetId) :
       second' = IF o \in {"ok", "zero"} /\ ~IsSentinelOwner(viewAsset(second.assetId).owner)
                 THEN [second EXCEPT !.assetData = viewAsset(second.assetId), !.lpc = "usage"]
                 ELSE [second EXCEPT !.lpc = "done"]
  /\ UNCHANGED <<ledgerVars, loaderVars, appVars, selectedAsset, handler, detail, parked>>

SecondLoadUsageLogs ==
  /\ second.pc \in {"loadMy", "loadAll"}
  /\ second.lpc = "usage"
  /\ \E o \in UsageOutcomes(second.assetId) :
       second' = [second EXCEPT !.usageLogs = loadUsageLogs(second.assetId, o), !.lpc = "perms"]
  /\ UNCHANGED <<ledgerVars, loaderVars, appVars, selectedAsset, handler, detail, parked>>

SecondLoadPermissions ==
  /\ second.pc \in {"loadMy", "loadAll"}
  /\ second.lpc = "perms"
  /\ \E o \in PermOutcomes :
       second' = [second EXCEPT
                    !.loaded = Append(@, MakeAsset(second.assetId, second.assetData,
                                                   getAssetPermissions(second.assetId, o),
                                                   second.usageLogs)),
                    !.assetId = @ + 1,
                    !.lpc = "probe"]
  /\ UNCHANGED <<ledgerVars, loaderVars, appVars, selectedAsset, handler, detail, parked>>

\* loadMyAssets resolves in the second invocation: setAssets(myAssets).
SecondAfterLoadMyAssets ==
  /\ second.pc = "loadMy"
  /\ second.lpc = "done"
  /\ assets' = FilterMine(second.loaded, walletAddress)
  /\ second' = [SecondStartLoadAll("loadAll") EXCEPT
                  !.myAssets = FilterMine(second.loaded, walletAddress),
                  !.assets = FilterMine(second.loaded, walletAddress),
                  !.setAssets = TRUE]
  /\ UNCHANGED <<ledgerVars, loaderVars, appPc, myAssets, walletAddress, allAssets,
                 isLoadingAssets, loadError, storage, netSeen, lastLoad,
                 selectedAsset, handler, detail, parked>>

\* loadAllAssets resolves in the second invocation: setAllAssets, the
\* localStorage backup, finally.
SecondAfterLoadAllAssets ==
  /\ second.pc = "loadAll"
  /\ second.lpc = "done"
  /\ allAssets' = second.loaded
  /\ storage' = IF Len(second.myAssets) > 0 THEN JSONStringify(second.myAssets) ELSE storage
  /\ isLoadingAssets' = FALSE
  /\ lastLoad' = "ok"
  /\ second' = [second EXCEPT !.pc = "done", !.allAssets = second.loaded, !.setAllAssets = TRUE]
  /\ UNCHANGED <<ledgerVars, loaderVars, appPc, myAssets, walletAddress, assets, loadError,
                 netSeen, selectedAsset, handler, detail, parked>>

\* Both invocations have returned; the frame of the second is gone.
SecondReturn ==
  /\ second.pc = "done"
  /\ appPc = "idle"
  /\ second' = NoSecond
  /\ UNCHANGED <<ledgerVars, loaderVars, appVars, selectedAsset, handler, detail, parked>>

\* ------------------------------------------------------------------------
\* Specifications
\* ------------------------------------------------------------------------
\* No loader call and no App load is in flight.
Quiescent == lpc = "idle" /\ appPc = "idle"

\* The App has shown nothing yet: the state of a freshly connected wallet.
Pristine ==
  /\ Quiescent
  /\ assets = <<>>
  /\ allAssets = <<>>
  /\ loadError = NullError
  /\ storage = NullItem

\* Transactions of the accounts between two loader calls: an owner grants
\* and revokes access of the other accounts and logs usage of its asset.
LedgerWrite ==
  \/ \E sender \in Accounts : RegisterAsset(sender)
  \/ \E id \in 1..Len(ledger) : \E grantee \in Accounts \ {ledger[id].owner} :
       GrantPermission(id, grantee)
  \/ \E id \in 1..Len(ledger) : \E grantee \in Accounts \ {ledger[id].owner} :
       RevokePermission(id, grantee)
  \/ \E id \in 1..Len(ledger) : LogUsage(id, ledger[id].owner)

Loader ==
  \/ CallLoadAllAssets
  \/ \E id \in 1..(MaxAssets + 1) : CallLoadAsset(id)
  \/ ProbeAsset
  \/ ViewSingleAsset
  \/ LoadUsageLogs
  \/ LoadPermissions
  \/ LoaderReturn

\* The loader library called on a ledger that changes between calls.
Next ==
  \/ (Quiescent /\ LedgerWrite)
  \/ Loader

Spec == Init /\ [][Next]_vars

\* A build with or without VITE_CONTRACT_ADDRESS.
InitConfig ==
  /\ ledger = <<>>
  /\ permEvents = <<>>
  /\ usageEntries = <<>>
  /\ clock = 1
  /\ contractAddress \in {"", DeployedAddress}
  /\ LoaderInit
  /\ ViewInit
  /\ AppInit

SpecConfig == InitConfig /\ [][Next]_vars

\* Other clients of the ledger register assets and transfer ownership at
\* any moment, also between two reads of a running loader call.
NextRace ==
  \/ \E sender \in Accounts : RegisterAsset(sender)
  \/ \E id \in 1..MaxAssets, newOwner \in Accounts : TransferOwnership(id, newOwner)
  \/ Loader

SpecRace == Init /\ [][NextRace]_vars

\* The App's first load after the wallet connects, on a ledger of assets
\* registered and transferred before it.
NextApp ==
  \/ (Pristine /\ \E sender \in Accounts : RegisterAsset(sender))
  \/ (Pristine /\ \E id \in 1..MaxAssets, newOwner \in Accounts : TransferOwnership(id, newOwner))
  \/ (Pristine /\ LoadAssetsFromBlockchain)
  \/ TestContractConnection
  \/ ProbeAsset
  \/ LoadUsageLogs
  \/ LoadPermissions
  \/ AfterLoadMyAssets
  \/ AfterLoadAllAssets

SpecApp == Init /\ [][NextApp]_vars

\* Transactions that decide who may access an asset.
AccessWrite ==
  \/ \E sender \in Accounts : RegisterAsset(sender)
  \/ \E id \in 1..Len(ledger) : \E grantee \in Accounts \ {ledger[id].owner} :
       GrantPermission(id, grantee)
  \/ \E id \in 1..Len(ledger) : \E grantee \in Accounts \ {ledger[id].owner} :
       RevokePermission(id, grantee)

\* What an earlier session of the wallet left in localStorage under
\* assets_<wallet>: asset 1, then owned by the wallet's account.
PreviousSessionAssets(wallet) ==
  LET account == CHOOSE a \in Accounts : ToLowerCase(a) = ToLowerCase(wallet)
  IN <<MakeAsset(1, [id |-> 1, author |-> account, owner |-> account],
                 <<ToLowerCase(account)>>, <<>>)>>

\* The App starts with or without such a cache entry.
InitCache ==
  /\ ledger = <<>>
  /\ permEvents = <<>>
  /\ usageEntries = <<>>
  /\ clock = 1
  /\ contractAddress = DeployedAddress
  /\ LoaderInit
  /\ ViewInit
  /\ appPc = "idle"
  /\ myAssets = <<>>
  /\ walletAddress \in Wallets
  /\ assets = <<>>
  /\ allAssets = <<>>
  /\ isLoadingAssets = FALSE
  /\ loadError = NullError
  /\ storage \in {NullItem, JSONStringify(PreviousSessionAssets(walletAddress))}
  /\ netSeen = FALSE
  /\ lastLoad = "none"

\* No load of this session has run yet.
FirstLoad == Quiescent /\ lastLoad = "none"

\* The App's first load of a session that may have inherited a cache entry,
\* on a ledger written before the load.
NextCache ==
  \/ (FirstLoad /\ \E sender \in Accounts : RegisterAsset(sender))
  \/ (FirstLoad /\ \E id \in 1..MaxAssets, newOwner \in Accounts : TransferOwnership(id, newOwner))
  \/ (FirstLoad /\ LoadAssetsFromBlockchain)
  \/ TestContractConnection
  \/ ProbeAsset
  \/ LoadUsageLogs
  \/ LoadPermissions
  \/ AfterLoadMyAssets
  \/ AfterLoadAllAssets

SpecCache == InitCache /\ [][NextCache]_vars

\* The filter functions of the loader called with the connected wallet's
\* address on a ledger whose owners and permissions change between calls.
NextFilter ==
  \/ (Quiescent /\ AccessWrite)
  \/ CallLoadMyAssets
  \/ CallLoadAccessibleAssets
  \/ ProbeAsset
  \/ LoadUsageLogs
  \/ LoadPermissions
  \/ ReturnFiltered
  \/ LoaderReturn

SpecFilter == Init /\ [][NextFilter]_vars

\* Every ledger read of the step succeeds: the network is up and the
\* contract is deployed.
ReliableReads ==
  /\ ~netSeen'
  /\ probeEnd' \in {"none", "zero"}
  /\ reads'.usage.kind \in {"none", "ok"}
  /\ reads'.perm \in {"none", "ok"}
  /\ lastLoad' \in {"none", "ok"}

\* loadAssetsFromBlockchain and loadAsset on a reachable ledger.
ReliableLoad ==
  \/ TestContractConnection
  \/ ProbeAsset
  \/ ViewSingleAsset
  \/ LoadUsageLogs
  \/ LoadPermissions
  \/ AfterLoadMyAssets
  \/ AfterLoadAllAssets

\* The owner's session: registration, the detail view, the modals' handlers
\* with their transactions, and a change of the connected wallet.
NextHandlers ==
  \/ HandleAssetRegistered
  \/ \E address \in Wallets : HandleWalletRegistration(address)
  \/ \E asset \in Range(assets) : HandleViewAsset(asset)
  \/ \E asset \in Range(assets) : \E newOwner \in Wallets : HandleTransferOwnership(asset, newOwner)
  \/ \E asset \in Range(assets) : \E userAddress \in Wallets : HandleGrantAccess(asset, userAddress)
  \/ \E asset \in Range(assets) : \E selectedUser \in Range(asset.permissions) :
       HandleRevokeAccess(asset, selectedUser)
  \/ AwaitGrantPermission
  \/ AwaitRevokePermission
  \/ AwaitLogUsage
  \/ AwaitTransferOwnership
  \/ AfterReload
  \/ AfterRefresh
  \/ (ReliableLoad /\ ReliableReads)

SpecHandlers == Init /\ [][NextHandlers]_vars

\* The usage log of the views: registration, the detail view, custom usage
\* entries and reloads, every read with all its outcomes.
Descriptions == {<<"reviewed the dataset">>}

NextLogUsage ==
  \/ HandleAssetRegistered
  \/ (handler.pc = "idle" /\ LoadAssetsFromBlockchain)
  \/ \E asset \in Range(allAssets) : HandleViewAsset(asset)
  \/ \E asset \in Range(allAssets) : \E description \in Descriptions :
       HandleLogUsage(asset.id, description)
  \/ SettleLogUsage
  \/ TestContractConnection
  \/ ProbeAsset
  \/ LoadUsageLogs
  \/ LoadPermissions
  \/ AfterLoadMyAssets
  \/ AfterLoadAllAssets

SpecLogUsage == Init /\ [][NextLogUsage]_vars

\* AssetDetail of an asset of the Explore page: the connected wallet is
\* its owner or a stranger, and downloads it.
NextDetail ==
  \/ (detail.pc = "idle" /\ HandleAssetRegistered)
  \/ (detail.pc = "idle" /\ \E address \in Wallets : HandleWalletRegistration(address))
  \/ (detail.pc = "idle" /\ \E asset \in Range(allAssets) : HandleViewAsset(asset))
  \/ \E assetURI \in AssetURIs : HandleDownload(assetURI)
  \/ AwaitDownloadLog
  \/ AwaitFetchFromIPFS
  \/ ((TestContractConnection \/ ProbeAsset \/ LoadUsageLogs \/ LoadPermissions
         \/ AfterLoadMyAssets \/ AfterLoadAllAssets) /\ ReliableReads)

SpecDetail == Init /\ [][NextDetail]_vars

\* Loads that overlap: the first invocation runs in the loader's frame, a
\* second one may start while the first is awaiting.
NextOverlap ==
  \/ (second.pc = "idle" /\ HandleAssetRegistered)
  \/ (second.pc = "idle" /\ handler.pc = "idle" /\ LoadAssetsFromBlockchain)
  \/ TestContractConnection
  \/ ProbeAsset
  \/ LoadUsageLogs
  \/ LoadPermissions
  \/ AfterLoadMyAssets
  \/ AfterLoadAllAssets
  \/ SecondLoadAssetsFromBlockchain
  \/ SecondHandleAssetRegistered
  \/ SecondTestContractConnection
  \/ SecondProbeAsset
  \/ SecondLoadUsageLogs
  \/ SecondLoadPermissions
  \/ SecondAfterLoadMyAssets
  \/ SecondAfterLoadAllAssets
  \/ SecondReturn

SpecOverlap == Init /\ [][NextOverlap]_vars

\* One asset, its owner field in either letter case, with any history of
\* permission events whose grantees are in any letter case.
EventSet == [kind : {"Grant", "Revoke"}, grantee : AnyCase]

SeqsUpTo(S, n) == UNION {[1..k -> S] : k \in 0..n}

InitPermissions ==
  /\ ledger \in {<<[author |-> "0xAa", owner |-> o]>> : o \in {"0xAa", "0xaa"}}
  /\ permEvents \in {<<es>> : es \in SeqsUpTo(EventSet, MaxFoldEvents)}
  /\ usageEntries = << <<>> >>
  /\ clock = 1
  /\ contractAddress = DeployedAddress
  /\ LoaderInit
  /\ ViewInit
  /\ AppInit

SpecPermissions == InitPermissions /\ [][Loader]_vars

\* One asset with any usage history up to MaxAggUsage entries.
UsageHistory(actors) ==
  [i \in 1..Len(actors) |->
     [actor |-> actors[i], timestamp |-> i, description |-> "used"]]

InitUsage ==
  /\ ledger \in {<<[author |-> o, owner |-> o]>> : o \in Accounts}
  /\ permEvents = << <<>> >>
  /\ usageEntries \in {<<UsageHistory(actors)>> : actors \in SeqsUpTo(Accounts, MaxAggUsage)}
  /\ clock = Len(usageEntries[1]) + 1
  /\ contractAddress = DeployedAddress
  /\ LoaderInit
  /\ ViewInit
  /\ AppInit

SpecUsage == InitUsage /\ [][Loader]_vars

\* ------------------------------------------------------------------------
\* Properties
\* ------------------------------------------------------------------------
Ids(list) == [i \in 1..Len(list) |-> list[i].id]

\* The ids "1", "2", ..., "n" as decimal strings (n < 10).
AscendingIds(n) == [i \in 1..n |-> <<Digit[i + 1]>>]

IsPrefix(s, t) == Len(s) <= Len(t) /\ \A i \in 1..Len(s) : s[i] = t[i]

LoadAllDone == lpc = "done" /\ lfn = "loadAllAssets"
LoadAssetDone == lpc = "done" /\ lfn = "loadAsset"

\* loadAllAssets has just pushed an asset / loadAsset has just returned one.
JustPushed == lfn = "loadAllAssets" /\ lpc = "probe" /\ reads.perm # "none"
JustReturned == LoadAssetDone /\ reads.perm # "none"

\* The assets a finished loader call returned, as a list.
ResultAssets ==
  IF lfn = "loadAllAssets" THEN returned.value
  ELSE IF returned.value = Null THEN <<>> ELSE <<returned.value>>

\* C1: when the probe that ends loadAllAssets() finds the sentinel owner or
\* a decode error at id n+1 of a ledger holding ids 1..n, the call returns
\* normally exactly n assets whose ids are "1", ..., "n" in that order.
C1_LoadAllReturnsIdsInOrder ==
  (LoadAllDone /\ probeEnd \in {"zero", "decode"}) =>
    /\ ~returned.threw
    /\ Ids(returned.value) = AscendingIds(Len(ledger))

C1_Witness ==
  /\ LoadAllDone
  /\ probeEnd \in {"zero", "decode"}
  /\ Len(ledger) >= 2
  /\ Len(returned.value) = Len(ledger)

\* C2: a connectivity failure of the probing viewAsset(k) makes
\* loadAllAssets() fail with a propagated error; it never returns normally a
\* list that stops at k-1 while id k exists on the ledger.
C2_ProbeFailurePropagates ==
  (LoadAllDone /\ probeEnd = "net" /\ Exists(assetId)) => returned.threw

\* C3: on a reachable ledger without assets loadAllAssets() returns the empty
\* list without raising, and loadAssetsFromBlockchain ends with assets = [],
\* allAssets = [] and loadError = null.
C3_EmptyLedgerIsNotAnError ==
  /\ (LoadAllDone /\ Len(ledger) = 0 /\ probeEnd # "net") =>
       returned = [threw |-> FALSE, value |-> <<>>]
  /\ (appPc = "idle" /\ lastLoad # "none" /\ Len(ledger) = 0 /\ ~netSeen) =>
       (assets = <<>> /\ allAssets = <<>> /\ loadError = NullError)

C3_Witness ==
  /\ appPc = "idle"
  /\ lastLoad = "ok"
  /\ Len(ledger) = 0
  /\ ~netSeen
  /\ ~isLoadingAssets

\* C4: when a viewAsset issued by loadMyAssets or loadAllAssets inside
\* loadAssetsFromBlockchain fails with a connectivity error, the load ends
\* with loadError non-null, never with loadError = null and a truncated list.
C4_ConnectivityFailureShowsError ==
  (appPc = "idle" /\ lastLoad # "none" /\ netSeen /\ Len(allAssets) < Len(ledger)) =>
    loadError # NullError

\* C5: every Asset returned by loadAllAssets() or loadAsset(id) has its
\* lowercased owner address in its permissions array.
C5_OwnerAlwaysPermitted ==
  lpc = "done" =>
    \A k \in 1..Len(ResultAssets) :
      ResultAssets[k].owner # ZeroAddress =>
        Has(ResultAssets[k].permissions, ToLowerCase(ResultAssets[k].owner))

\* The chronological left fold: start with {owner}; a Grant adds its grantee;
\* a Revoke removes its grantee unless it is the owner.
RECURSIVE LeftFold(_, _, _)
LeftFold(set, events, owner) ==
  IF events = <<>> THEN set
  ELSE LET e == Head(events)
           g == ToLowerCase(e.grantee)
       IN LeftFold(IF e.kind = "Grant" THEN set \cup {g}
                   ELSE IF g = ToLowerCase(owner) THEN set ELSE set \ {g},
                   Tail(events), owner)

\* C6: getAssetPermissions returns the set obtained by a left fold over the
\* asset's events in ledger emission order; a grant emitted after a revoke
\* of the same address restores access.
C6_PermissionsAreLeftFold ==
  (JustReturned /\ reads.perm = "ok") =>
    Range(returned.value.permissions) =
      LeftFold({ToLowerCase(viewAsset(assetId).owner)}, EventsOf(assetId),
               viewAsset(assetId).owner)

\* C7: when a read of getAssetPermissions fails, the reconciliation fails
\* with an error visible to the caller; the call never returns normally.
C7_PermissionReadFailurePropagates ==
  (JustReturned /\ Exists(assetId) /\ reads.perm = "failed") => returned.threw

\* C8: when viewUsageEntry(id, j) fails after entries 0..j-1 were read, the
\* usage aggregator returns exactly those j entries in index order.
C8_PartialUsageIsKept ==
  (lpc = "perms" /\ reads.usage.kind = "entry") =>
    /\ Len(usageLogs) = reads.usage.at
    /\ \A i \in 1..Len(usageLogs) : usageLogs[i].user = EntriesOf(assetId)[i].actor

\* The asset of ledger id `id` as both loaders must present it when its
\* usage count could not be read.
KeptWithoutUsage(a, id) ==
  /\ a.id = <<Digit[id + 1]>>
  /\ a.usageLogs = <<>>
  /\ a.owner = ledger[id].owner
  /\ a.author = ledger[id].author

C9_Assembled ==
  /\ (JustPushed /\ reads.usage.kind = "count") =>
       /\ Len(loaded) = assetId - 1
       /\ KeptWithoutUsage(loaded[Len(loaded)], assetId - 1)
  /\ (JustReturned /\ reads.usage.kind = "count" /\ Exists(assetId)) =>
       /\ ~returned.threw
       /\ returned.value # Null
       /\ KeptWithoutUsage(returned.value, assetId)

C9_Kept ==
  (lfn = "loadAllAssets" /\ lpc # "done") =>
    /\ IsPrefix(loaded, loaded')
    /\ lpc' = "done" => returned' = [threw |-> FALSE, value |-> loaded]

\* C9: when the usage count of an existing asset cannot be read, the asset
\* is assembled with an empty usage history and its other fields, it stays
\* in the list until loadAllAssets() returns that list (loadAsset returns
\* it), and the load does not raise.
C9_UsageCountFailureKeepsAsset == []C9_Assembled /\ [][C9_Kept]_vars

C9_Witness ==
  /\ JustPushed
  /\ reads.usage.kind = "count"
  /\ Len(EntriesOf(assetId - 1)) > 0
  /\ Len(loaded) >= 2

\* C10: loadAsset(id) returns null whenever the ledger reports the all-zero
\* owner for id; it never returns an Asset whose owner is the zero address.
C10_LoadAssetNotFound ==
  LoadAssetDone =>
    (returned.value = Null \/ returned.value.owner # ZeroAddress)

\* A filter function has returned; `loaded` is what its loadAllAssets() gave.
FilterDone(fn) == lpc = "done" /\ lfn = fn

SameAddress(a, b) == ToLowerCase(a) = ToLowerCase(b)

\* C11: an asset is in loadAccessibleAssets(X) if and only if it is in the
\* list of loadAllAssets() and X is its owner or a member of its permission
\* set, compared case-insensitively.
C11_AccessibleIffOwnerOrPermitted ==
  FilterDone("loadAccessibleAssets") =>
    /\ Range(returned.value) \subseteq Range(loaded)
    /\ \A k \in 1..Len(loaded) :
         (loaded[k] \in Range(returned.value)) <=>
           \/ SameAddress(loaded[k].owner, walletAddress)
           \/ \E p \in Range(loaded[k].permissions) : SameAddress(p, walletAddress)

C11_Witness ==
  /\ FilterDone("loadAccessibleAssets")
  /\ Len(loaded) = 2
  /\ Len(returned.value) = 1
  /\ ~SameAddress(returned.value[1].owner, walletAddress)

\* s is t with some elements left out: same relative order, nothing added.
RECURSIVE IsSubSeq(_, _)
IsSubSeq(s, t) ==
  IF s = <<>> THEN TRUE
  ELSE IF t = <<>> THEN FALSE
  ELSE IF Head(s) = Head(t) THEN IsSubSeq(Tail(s), Tail(t))
  ELSE IsSubSeq(s, Tail(t))

\* C12: loadMyAssets(W) is a sub-sequence of the list of loadAllAssets(); it
\* holds every asset of that list whose owner equals W case-insensitively
\* and no asset whose owner differs from W.
C12_MineIsOwnerFilter ==
  FilterDone("loadMyAssets") =>
    /\ IsSubSeq(returned.value, loaded)
    /\ \A k \in 1..Len(loaded) :
         SameAddress(loaded[k].owner, walletAddress) =>
           loaded[k] \in Range(returned.value)
    /\ \A k \in 1..Len(returned.value) :
         SameAddress(returned.value[k].owner, walletAddress)

C12_Witness ==
  /\ FilterDone("loadMyAssets")
  /\ Len(loaded) = 2
  /\ Len(returned.value) = 1
  /\ returned.value[1] = loaded[2]
  /\ returned.value[1].owner # walletAddress

\* The events without the one at position k / with those at k and k+1 swapped.
RemoveAt(seq, k) == SubSeq(seq, 1, k - 1) \o SubSeq(seq, k + 1, Len(seq))
SwapAt(seq, k) ==
  [i \in 1..Len(seq) |-> IF i = k THEN seq[k + 1] ELSE IF i = k + 1 THEN seq[k] ELSE seq[i]]

\* loadAsset has returned an asset whose permission reads all succeeded.
Reconciled == JustReturned /\ reads.perm = "ok"

\* C13: a PermissionRevoked event whose grantee is the owner in any letter
\* case never removes the owner and never raises: [Revoke(A)] against owner
\* A yields {A}, and the reconciled set of a history equals that of the
\* history without any one of its Revoke(owner) events.
C13_RevokingOwnerIsNoOp ==
  Reconciled =>
    LET owner == viewAsset(assetId).owner
        events == EventsOf(assetId)
        permissions == returned.value.permissions
    IN /\ ~returned.threw
       /\ Has(permissions, ToLowerCase(owner))
       /\ (Len(events) = 1 /\ events[1].kind = "Revoke"
             /\ SameAddress(events[1].grantee, owner)) =>
            permissions = <<ToLowerCase(owner)>>
       /\ \A k \in 1..Len(events) :
            (events[k].kind = "Revoke" /\ SameAddress(events[k].grantee, owner)) =>
              Range(permissions) = Range(BuildPermissions(owner, RemoveAt(events, k)))

C13_Witness ==
  /\ Reconciled
  /\ Len(EventsOf(assetId)) = 3
  /\ EventsOf(assetId)[1].kind = "Grant"
  /\ EventsOf(assetId)[2].kind = "Revoke"
  /\ EventsOf(assetId)[2].grantee # viewAsset(assetId).owner
  /\ SameAddress(EventsOf(assetId)[2].grantee, viewAsset(assetId).owner)
  /\ Len(returned.value.permissions) = 2

\* C14: duplicate grants are idempotent: the reconciled set of a history in
\* which Grant(X) is immediately repeated (in the same or another letter
\* case) equals that of the history without the repetition, and the returned
\* array holds no address twice.
C14_DuplicateGrantsAreIdempotent ==
  Reconciled =>
    LET owner == viewAsset(assetId).owner
        events == EventsOf(assetId)
        permissions == returned.value.permissions
    IN /\ \A i, j \in 1..Len(permissions) : permissions[i] = permissions[j] => i = j
       /\ \A k \in 1..(Len(events) - 1) :
            (events[k].kind = "Grant" /\ events[k + 1].kind = "Grant"
               /\ SameAddress(events[k].grantee, events[k + 1].grantee)) =>
              Range(permissions) = Range(BuildPermissions(owner, RemoveAt(events, k + 1)))

C14_Witness ==
  /\ Reconciled
  /\ Len(EventsOf(assetId)) = 2
  /\ EventsOf(assetId)[1] = [kind |-> "Grant", grantee |-> "0xBb"]
  /\ EventsOf(assetId)[2] = [kind |-> "Grant", grantee |-> "0xbb"]
  /\ Len(returned.value.permissions) = 2

\* C15: reconciliation is deterministic: the returned array is determined by
\* the owner and the ordered events alone, and swapping two adjacent events
\* that concern different addresses yields the same set.
C15_ReconciliationIsDeterministic ==
  Reconciled =>
    LET owner == viewAsset(assetId).owner
        events == EventsOf(assetId)
        permissions == returned.value.permissions
    IN /\ permissions = BuildPermissions(owner, events)
       /\ \A k \in 1..(Len(events) - 1) :
            ~SameAddress(events[k].grantee, events[k + 1].grantee) =>
              Range(permissions) = Range(BuildPermissions(owner, SwapAt(events, k)))

C15_Witness ==
  /\ Reconciled
  /\ Len(EventsOf(assetId)) = 3
  /\ EventsOf(assetId)[1] = [kind |-> "Grant", grantee |-> "0xBb"]
  /\ EventsOf(assetId)[2] = [kind |-> "Grant", grantee |-> "0xCc"]
  /\ EventsOf(assetId)[3].kind = "Revoke"
  /\ Len(returned.value.permissions) = 3

\* C16: when the usage count c and all c indexed reads succeed, the usage
\* logs are exactly the c ledger entries in index order, oldest first, and
\* log i (from 0) carries the id "<assetId>-<i>".
C16_UsageKeepsIndexOrder ==
  (lpc = "perms" /\ reads.usage.kind = "ok") =>
    /\ Len(usageLogs) = Len(EntriesOf(assetId))
    /\ \A i \in 1..Len(usageLogs) :
         /\ usageLogs[i].user = EntriesOf(assetId)[i].actor
         /\ usageLogs[i].description = EntriesOf(assetId)[i].description
         /\ usageLogs[i].timestamp = <<"locale", EntriesOf(assetId)[i].timestamp * 1000>>
         /\ usageLogs[i].id = <<Digit[assetId + 1], "-", Digit[i]>>

C16_Witness ==
  /\ lpc = "perms"
  /\ reads.usage.kind = "ok"
  /\ Len(usageLogs) = 3
  /\ usageLogs[1].user # usageLogs[2].user
  /\ usageLogs[2].user = usageLogs[3].user

\* A read of the usage log or of the permission events of the asset being
\* assembled failed.
PerAssetFailure(r) == r.usage.kind \in {"count", "entry"} \/ r.perm = "failed"

C17_Continues ==
  (lfn = "loadAllAssets" /\ lpc = "perms" /\ lpc' # "perms" /\ Exists(assetId)
     /\ PerAssetFailure(reads')) =>
    /\ lpc' = "probe"
    /\ assetId' = assetId + 1
    /\ Len(loaded') = Len(loaded) + 1
    /\ IsPrefix(loaded, loaded')
    /\ loaded'[Len(loaded')].id = <<Digit[assetId + 1]>>
    /\ loaded'[Len(loaded')].owner = ledger[assetId].owner

C17_AllReturned ==
  (LoadAllDone /\ probeEnd \in {"zero", "decode"}) =>
    /\ ~returned.threw
    /\ Len(returned.value) = Len(ledger)
    /\ \A k \in 1..Len(ledger) : returned.value[k].owner = ledger[k].owner

\* C17: in a bulk load a failure while reading the permission events or the
\* usage log of an existing asset k does not abort the batch: asset k is
\* pushed, k+1 is probed next, the list only grows until it is returned, and
\* a run whose probes reach the end of the data returns all n assets.
C17_PerAssetFailureKeepsBatch ==
  [][C17_Continues /\ C9_Kept]_vars /\ []C17_AllReturned

C17_Witness ==
  /\ JustPushed
  /\ reads.perm = "failed"
  /\ reads.usage.kind = "ok"
  /\ assetId = 2
  /\ Exists(assetId)

\* Every asset shown is what the ledger holds now for an asset of the wallet.
ShownFromLedger ==
  \A k \in 1..Len(assets) :
    \E id \in 1..Len(ledger) :
      /\ assets[k].id = <<Digit[id + 1]>>
      /\ assets[k].owner = ledger[id].owner
      /\ assets[k].author = ledger[id].author
      /\ SameAddress(assets[k].owner, walletAddress)

C18_Fresh ==
  (appPc = "loadAll" \/ (appPc = "idle" /\ lastLoad = "ok")) => ShownFromLedger

C18_Step ==
  /\ (appPc = "idle" /\ appPc' # "idle") => appPc' = "test"
  /\ (appPc = "test" /\ appPc' # "idle") =>
       (appPc' = "loadMy" /\ lpc' = "probe" /\ lfn' = "loadAllAssets")
  /\ (appPc = "loadMy" /\ appPc' # "loadMy") =>
       /\ appPc' = "loadAll"
       /\ assets' = SelectSeq(returned.value, LAMBDA a : SameAddress(a.owner, walletAddress))
  /\ (appPc # "idle" /\ appPc' = "idle" /\ lastLoad' = "ok") =>
       (appPc = "loadAll" /\ lpc = "done" /\ assets' = assets)
  /\ (appPc # "idle" /\ appPc' = "idle" /\ lastLoad' = "empty") => assets' = <<>>

\* C18: loadAssetsFromBlockchain reads the cache entry only where the load
\* failed with an error that is not the empty-contract error; a successful
\* load sets assets to the list just loaded from the ledger, whatever the
\* cache holds, and a load always starts by reading the ledger.
C18_CacheIsOnlyAFallback == []C18_Fresh /\ [][C18_Step]_vars

C18_Witness ==
  /\ appPc = "loadAll"
  /\ lpc = "done"
  /\ storage # NullItem
  /\ Len(assets) = 1
  /\ assets[1].id # JSONParse(storage)[1].id
  /\ Len(returned.value) = 2

\* C19: when the contract address is not configured, loadAllAssets() and
\* loadAsset(id) surface the configuration error to their caller: the call
\* raises; it returns neither the empty list nor null (not found).
C19_ConfigurationErrorSurfaces ==
  (lpc = "done" /\ probeEnd = "config") => returned.threw

\* The Asset that the ledger state and the outcomes r of its reads determine
\* for the existing id k.
AssembledFrom(k, r) ==
  [id |-> <<Digit[k + 1]>>,
   author |-> ledger[k].author,
   owner |-> ledger[k].owner,
   permissions |-> IF r.perm = "ok" THEN BuildPermissions(ledger[k].owner, permEvents[k])
                   ELSE <<>>,
   usageLogs |-> loadUsageLogs(k, r.usage)]

C20_Determined ==
  /\ JustPushed =>
       /\ Len(loaded) = assetId - 1
       /\ loaded[Len(loaded)] = AssembledFrom(assetId - 1, reads)
  /\ LoadAllDone => returned = [threw |-> FALSE, value |-> loaded]

C20_ReadOnly ==
  (lpc # "idle" \/ lpc' # "idle") => UNCHANGED <<ledger, permEvents, usageEntries>>

\* C20: loadAllAssets() only reads: no step of a call changes the assets,
\* owners, permission events or usage entries of the ledger; and the list it
\* returns is determined by the ledger state and the outcomes of its reads,
\* element by element, so a second run with the same outcomes on the
\* unchanged ledger returns an equal list.
C20_LoadAllIsIdempotent ==
  []C20_Determined /\ [][C20_ReadOnly /\ C9_Kept]_vars

C20_Witness ==
  /\ LoadAllDone
  /\ Len(returned.value) = 2
  /\ Len(returned.value[2].usageLogs) = 1
  /\ Len(returned.value[1].permissions) = 2

\* A loadAllAssets() call is between its entry and its return.
Probing == lfn = "loadAllAssets" /\ lpc \in {"probe", "usage", "perms"}

C21_Position ==
  /\ Probing =>
       /\ assetId = Len(loaded) + 1
       /\ \A k \in 1..(assetId - 1) : Exists(k) /\ loaded[k].id = <<Digit[k + 1]>>
       /\ assetId <= Len(ledger) + 1
  /\ (lfn = "loadAllAssets" /\ lpc \in {"usage", "perms"}) =>
       (Exists(assetId) /\ assetData.owner = ledger[assetId].owner)

C21_Step ==
  /\ (lpc = "idle" /\ lfn' = "loadAllAssets") => (lpc' = "probe" /\ assetId' = 1)
  /\ (Probing /\ lpc # "perms") => assetId' = assetId
  /\ (Probing /\ lpc = "perms") => (assetId' = assetId + 1 /\ lpc' = "probe")
  /\ (Probing /\ lpc = "probe" /\ ~Exists(assetId)) => lpc' = "done"
  /\ LoadAllDone => (lpc' = "idle" \/ UNCHANGED <<lpc, assetId>>)

\* C21: within one loadAllAssets() call the ids are probed one at a time in
\* the order 1, 2, 3, ...: id k+1 is probed only after id k was read with a
\* non-sentinel owner and assembled, none is skipped, and nothing is probed
\* after the first id that shows the sentinel owner or fails.
C21_ProbingIsSequential == []C21_Position /\ [][C21_Step]_vars

C21_Witness ==
  /\ LoadAllDone
  /\ probeEnd = "zero"
  /\ assetId = 3
  /\ Len(loaded) = 2

\* The addresses of the model that contain no upper-case letter.
LowerCaseForm == {"0xaa", "0xbb", "0xcc", ZeroAddress}

\* The last event of the history that concerns address x, 0 if none.
LastEventOf(events, x) ==
  LET ks == {k \in 1..Len(events) : SameAddress(events[k].grantee, x)}
  IN IF ks = {} THEN 0 ELSE CHOOSE k \in ks : \A m \in ks : m <= k

C27_AssetIsOfOneLedgerState ==
  /\ (JustPushed /\ reads.perm = "ok") =>
       Has(loaded[Len(loaded)].permissions, ToLowerCase(loaded[Len(loaded)].owner))
  /\ (JustReturned /\ reads.perm = "ok" /\ returned.value.owner # ZeroAddress) =>
       Has(returned.value.permissions, ToLowerCase(returned.value.owner))

\* C29: after every successful loadAssetsFromBlockchain for wallet W the
\* cache entry assets_W equals the list of W's assets just loaded, also when
\* that list is empty.
C29_CacheEqualsLastLoad ==
  (appPc = "idle" /\ lastLoad = "ok") =>
    (IF storage = NullItem THEN <<>> ELSE JSONParse(storage)) = assets

\* The assets the views hold.
ViewAssets ==
  Range(assets) \cup Range(allAssets) \cup (IF selectedAsset = Null THEN {} ELSE {selectedAsset})

\* C22: the usage log a view holds for an asset is a prefix-preserving copy
\* of the ledger's entries of that asset in index order: it is no longer than
\* the ledger's sequence and its i-th element is the UsageLog of the i-th
\* ledger entry.
C22_ViewUsageLogIsLedgerPrefix ==
  \A a \in ViewAssets :
    LET k == ParseInt(a.id)
        copy == loadUsageLogs(k, [kind |-> "ok", at |-> 0])
    IN /\ Len(a.usageLogs) <= Len(copy)
       /\ \A i \in 1..Len(a.usageLogs) : a.usageLogs[i] = copy[i]

\* handleTransferOwnership has shown its success alert.
TransferSucceeded ==
  handler.fn = "transfer" /\ handler.pc = "idle" /\ handler.result = "success"

\* C24: when handleTransferOwnership has completed successfully from owner
\* A (the wallet) to new owner B, the permissions getAssetPermissions
\* reconstructs for the asset contain both B and A.
C24_PreviousOwnerKeepsAccess ==
  TransferSucceeded =>
    LET permissions == getAssetPermissions(handler.id, "ok")
    IN /\ Has(permissions, ToLowerCase(handler.address))
       /\ Has(permissions, ToLowerCase(handler.wallet))

\* handleTransferOwnership enters its catch in this step.
TransferFails ==
  /\ handler.fn = "transfer"
  /\ handler.pc # "idle"
  /\ handler'.pc = "idle"
  /\ handler'.result = "failed"

\* C28: handleTransferOwnership is all-or-nothing: it enters its failure
\* branch only while none of its three writes has taken effect, that is,
\* from the await of its first write.
C28_TransferIsAllOrNothing == [][TransferFails => handler.pc = "grant"]_vars

\* C30: RevokeAccessModal lists no user that is the owner of the asset under
\* case-insensitive comparison, and handleRevokeAccess is never called with
\* such an address.
C30_OwnerIsNotRevocable ==
  /\ \A a \in ViewAssets : \A p \in Range(OtherUsers(a)) : ~SameAddress(p, a.owner)
  /\ handler.fn = "revoke" => ~SameAddress(handler.address, handler.owner)

\* C23: in handleDownload the file is fetched only after the logUsage
\* transaction of the same invocation was confirmed; without access, or when
\* logUsage fails, nothing is fetched; and isDownloading is false whenever
\* the handler is not running.
C23_Position ==
  /\ detail.pc = "fetch" => detail.logged
  /\ detail.fetched => detail.logged
  /\ detail.pc = "idle" => ~detail.isDownloading

C23_Step ==
  /\ (detail.pc = "idle" /\ detail'.pc # "idle") => HasAccess(selectedAsset, walletAddress)
  /\ (detail.pc = "log" /\ usageEntries' = usageEntries) =>
       (detail'.pc = "idle" /\ ~detail'.fetched /\ detail'.downloadError # NullError)

C23_DownloadOnlyAfterLogUsage == []C23_Position /\ [][C23_Step]_vars

C23_Witness ==
  /\ detail.pc = "idle"
  /\ detail.fetched
  /\ detail.logged
  /\ ~detail.isDownloading
  /\ selectedAsset # Null
  /\ Len(EntriesOf(ParseInt(selectedAsset.id))) > 0

\* An invocation of loadAssetsFromBlockchain is awaiting.
InFlight == appPc # "idle" \/ second.pc \notin {"idle", "done"}

\* C26: when two overlapping invocations of loadAssetsFromBlockchain have
\* both finished, assets and allAssets hold what the invocation that started
\* last has set, and isLoadingAssets is true while an invocation is in flight.
C26_LastStartedLoadWins ==
  /\ (appPc = "idle" /\ second.pc = "done") =>
       /\ second.setAssets => assets = second.assets
       /\ second.setAllAssets => allAssets = second.allAssets
  /\ InFlight => isLoadingAssets

====
